---- MODULE Spec2Model ----
(***************************************************************************)
(* The virtual folder engine of the browser: FolderManager                 *)
(* (src/src/services/folderManager.ts) and its persistence through the     *)
(* host's globalState.                                                     *)
(*                                                                         *)
(* A mutator of FolderManager is an async function: it changes this.state  *)
(* synchronously, starts the write (saveState), and after the awaited      *)
(* write has settled fires _onDidChange (or rethrows the write's failure). *)
(* Each mutator is therefore two steps of the model: the call (mutation +  *)
(* start of the write) and the settlement of the write (SaveDone,          *)
(* SaveFailed).                                                            *)
(*                                                                         *)
(* Folder ids are 122 random bits in the code (generateId); the model      *)
(* draws them as the next unused number, and callers can only name ids     *)
(* that were minted before the call, or an id that is never minted.        *)
(*                                                                         *)
(* last and done are history variables: the mutator call made last with    *)
(* the state it found, and the call that settled since, with what it       *)
(* wrote and fired.  A run makes at most MaxCalls calls.                   *)
(*                                                                         *)
(* globalState is the host's: its writes are taken to settle in the order  *)
(* of the calls, each storing the state as it was when update was called.  *)
(* SpecLoad starts from what an earlier session can have left there, and   *)
(* lets the extension restart (activate); a state loaded from a blob that  *)
(* lacks a kind makes the mutators of that kind throw before their write.  *)
(*                                                                         *)
(* The commands and the drop handlers take folder ids from the folder      *)
(* nodes a view has rendered (getChildren) and from the options of the     *)
(* quick pick that moveToFolder awaits; both can be older than the state.  *)
(* SpecUI runs the commands one at a time, SpecCommands lets them overlap  *)
(* and lets the view render at any moment, SpecReload lets a provider      *)
(* reload its items.  Item keys are file paths, but for plugins, whose     *)
(* keys are names and can be names of properties of Object.prototype.      *)
(***************************************************************************)
EXTENDS Integers, Sequences, FiniteSets, TLC

\* ---- bounds of the model ----------------------------------------------
MaxFolders == 3          \* ids minted in one run
MaxPending == 1          \* mutator calls whose write is still in flight
MaxCalls   == 4          \* mutator calls in one run

\* ---- program constants -------------------------------------------------
ResourceTypes   == {"skill", "agent", "mcp", "plugin"}
CURRENT_VERSION == 2
Undefined       == 0     \* the JavaScript value undefined, where an id is expected

\* ---- inputs ------------------------------------------------------------
OneType     == {"skill"}              \* kinds the calls are made with
TwoTypes    == {"skill", "agent"}
LoadType    == {"mcp"}                \* the kind called after a load
FolderNames == {"a"}                  \* names given to new folders
NewNames    == {"b"}                  \* names given by renameFolder
ItemKeys    == {"k1", "k2"}
GhostId     == MaxFolders + 1         \* an id string that generateId never returned
\* the filePaths arrays handed to assignItemsToFolder
FilePathArrays == {<<>>, <<"k2">>, <<"k1", "k2">>}

VARIABLES
  calls,      \* mutator calls made so far
  state,      \* FolderManager.state : FolderState
  minted,     \* number of ids generateId has returned
  stored,     \* globalState's value under STORAGE_KEY, NoBlob if none
  pending,    \* calls awaiting saveState, oldest first
  done,       \* the call that settled last, with what it wrote and fired
  last,       \* the mutator call made last, with the state it found
  req,        \* the drop, move or reload handled last, NoReq after a direct call
  rendered,   \* per view, the ids of the folder nodes getChildren returned last
  quickPick,  \* the quick pick moveToFolder awaits, NoQuickPick if none
  loaded      \* per view, the keys of the items the provider holds

vars == <<calls, state, minted, stored, pending, done, last, req, rendered,
          quickPick, loaded>>

\* what the providers hold and the user sees
ui == <<rendered, quickPick, loaded>>

\* ---- FolderState -------------------------------------------------------
EmptyFn == [x \in {} |-> Undefined]

\* what globalState.get returns when nothing is stored: it has no property
NoBlob == [x \in {} |-> Undefined]

\* variant: the kinds of the first release of the folders
EmptyStateTwoKinds ==
  [version     |-> CURRENT_VERSION,
   folders     |-> [rt \in {"skill", "agent"} |-> <<>>],
   assignments |-> [rt \in {"skill", "agent"} |-> EmptyFn]]

EmptyState ==
  [version     |-> CURRENT_VERSION,
   folders     |-> [rt \in ResourceTypes |-> <<>>],
   assignments |-> [rt \in ResourceTypes |-> EmptyFn]]

\* o.p of JavaScript: undefined when o has no property p
Prop(o, p) == IF p \in DOMAIN o THEN o[p] ELSE Undefined

\* ---- what the host stores ------------------------------------------------
\* globalState keeps the value as JSON: a property whose value is undefined
\* (the parentId of a root-level folder) is not written
JSONFolder(f) ==
  IF Prop(f, "parentId") = Undefined
  THEN [id |-> f.id, name |-> f.name, resourceType |-> f.resourceType]
  ELSE f

\* variant: parentId is never written
JSONWithoutParent(s) ==
  [s EXCEPT !.folders =
     [rt \in DOMAIN s.folders |->
        [i \in 1..Len(s.folders[rt]) |->
           [id |-> s.folders[rt][i].id, name |-> s.folders[rt][i].name,
            resourceType |-> s.folders[rt][i].resourceType]]]]

toJSON(s) ==
  [s EXCEPT !.folders =
     [rt \in DOMAIN s.folders |->
        [i \in 1..Len(s.folders[rt]) |-> JSONFolder(s.folders[rt][i])]]]

\* variant: a blob of another version than the current one is dropped
loadStateCurrentOnly(blob) ==
  IF "version" \in DOMAIN blob /\ blob.version = CURRENT_VERSION
  THEN blob ELSE EmptyState

\* stored && stored.version >= 1: false for no blob and for no version
loadState(blob) == IF "version" \in DOMAIN blob /\ blob.version >= 1
                   THEN [blob EXCEPT !.version = CURRENT_VERSION]
                   ELSE EmptyState

\* ---- what globalState can hold when the extension starts ---------------
\* a folder as version 1 wrote it: no parentId
V1Folder(id, rt) == [id |-> id, name |-> "a", resourceType |-> rt]

V2Folder(id, rt, parentId) ==
  [id |-> id, name |-> "a", parentId |-> parentId, resourceType |-> rt]

\* two folders and one assigned item of kind mcp, written by version 1
V1Blob ==
  [version     |-> 1,
   folders     |-> [rt \in ResourceTypes |->
                      IF rt = "mcp" THEN <<V1Folder(1, rt), V1Folder(2, rt)>>
                      ELSE <<>>],
   assignments |-> [rt \in ResourceTypes |->
                      IF rt = "mcp" THEN [k \in {"k1"} |-> 2] ELSE EmptyFn]]

\* a folder, a folder in it and an item in that, written by this version
V2Blob ==
  [version     |-> CURRENT_VERSION,
   folders     |-> [rt \in ResourceTypes |->
                      IF rt = "mcp"
                      THEN <<JSONFolder(V2Folder(1, rt, Undefined)),
                             V2Folder(2, rt, 1)>>
                      ELSE <<>>],
   assignments |-> [rt \in ResourceTypes |->
                      IF rt = "mcp" THEN [k \in {"k1"} |-> 2] ELSE EmptyFn]]

\* blobs that are not a FolderState
NoVersionBlob ==
  [folders |-> V2Blob.folders, assignments |-> V2Blob.assignments]

NoFolderListBlob ==
  [V2Blob EXCEPT !.folders = [rt \in ResourceTypes \ {"mcp"} |-> <<>>]]

NoAssignmentMapBlob ==
  [V2Blob EXCEPT !.assignments = [rt \in ResourceTypes \ {"mcp"} |-> EmptyFn]]

PersistedBlobs ==
  {NoBlob, V1Blob, V2Blob, NoVersionBlob, NoFolderListBlob, NoAssignmentMapBlob}

\* the ids in use in a blob are 1..IdsIn(blob)
IdsIn(blob) ==
  IF "folders" \in DOMAIN blob /\ "mcp" \in DOMAIN blob.folders
  THEN Len(blob.folders["mcp"]) ELSE 0

\* ---- read methods ------------------------------------------------------
\* this.state.folders[rt] ?? []
getFolders(s, rt) == IF rt \in DOMAIN s.folders THEN s.folders[rt] ELSE <<>>

getChildFolders(s, rt, parentId) ==
  SelectSeq(getFolders(s, rt), LAMBDA f : Prop(f, "parentId") = parentId)

\* names of properties that every assignment map, a plain object, inherits
\* from Object.prototype; the key of a plugin is its name, which can be one
ObjectPrototypeKeys == {"toString"}

\* the value of an inherited property: a function, neither undefined nor an id
InheritedFunction == -1

\* this.state.assignments[rt]?.[filePath]: the entry of filePath, or what
\* the map inherits under that name, or undefined
getFolderForItem(s, rt, filePath) ==
  IF rt \notin DOMAIN s.assignments THEN Undefined
  ELSE IF filePath \in DOMAIN s.assignments[rt] THEN s.assignments[rt][filePath]
  ELSE IF filePath \in ObjectPrototypeKeys THEN InheritedFunction
  ELSE Undefined

\* this.state.assignments[rt] ?? {}
getItemsInFolder(s, rt, folderId) ==
  IF rt \in DOMAIN s.assignments
  THEN {p \in DOMAIN s.assignments[rt] : s.assignments[rt][p] = folderId}
  ELSE {}

\* variant: the items of the folder and of its child folders, one level only
RECURSIVE SumDirect(_, _, _, _)
SumDirect(s, rt, childFolders, i) ==
  IF i > Len(childFolders) THEN 0
  ELSE Cardinality(getItemsInFolder(s, rt, childFolders[i].id))
         + SumDirect(s, rt, childFolders, i + 1)

countItemsOneLevel(s, rt, folderId) ==
  Cardinality(getItemsInFolder(s, rt, folderId))
    + SumDirect(s, rt, getChildFolders(s, rt, folderId), 1)

RECURSIVE SumOver(_, _, _, _)
RECURSIVE countItemsRecursive(_, _, _)
countItemsRecursive(s, rt, folderId) ==
  Cardinality(getItemsInFolder(s, rt, folderId))
    + SumOver(s, rt, getChildFolders(s, rt, folderId), 1)

\* the for loop of countItemsRecursive over childFolders, from index i
SumOver(s, rt, childFolders, i) ==
  IF i > Len(childFolders) THEN 0
  ELSE countItemsRecursive(s, rt, childFolders[i].id)
         + SumOver(s, rt, childFolders, i + 1)

\* ---- the composed tree (AgentsProvider.getChildren, no filter text) -----
\* the scanned items are those of ItemKeys; a folder node shows the items
\* assigned to its id, the root shows the items without a folder
folderItems(s, rt, folderId) ==
  {a \in ItemKeys : getFolderForItem(s, rt, a) = folderId}

\* variant: the root also shows the items whose folder id is not a folder
unassignedOrOrphaned(s, rt) ==
  {a \in ItemKeys :
     \A f \in {getFolders(s, rt)[i] : i \in 1..Len(getFolders(s, rt))} :
        getFolderForItem(s, rt, a) # f.id}

unassignedItems(s, rt) ==
  {a \in ItemKeys : getFolderForItem(s, rt, a) = Undefined}

\* ---- getChildren of the four providers, with filter and enumeration -----
\* the providers of skill and mcp list getFolders at root and no folder in
\* a folder; those of agent and plugin list getChildFolders at each level
FlatKinds == {"skill", "mcp"}

\* the name of the enumerated item with a key (its description is empty)
ItemName(key) == IF key = "k1" THEN "b" ELSE "c"

\* text.toLowerCase().includes(filterText), for texts of one letter
includes(text, filterText) == text = filterText

\* applyFilter: all items when there is no filter text
applyFilter(items, filterText) ==
  IF filterText = "" THEN items
  ELSE {a \in items : includes(ItemName(a), filterText)}

\* the enumerated items whose assignment is folderId
itemsInFolder(s, rt, folderId, enumerated) ==
  {a \in enumerated : getFolderForItem(s, rt, a) = folderId}

\* ids of the folder nodes getChildren() returns at root
rootFolders(s, rt, filterText, enumerated) ==
  LET folders == IF rt \in FlatKinds THEN getFolders(s, rt)
                 ELSE getChildFolders(s, rt, Undefined)
  IN {folders[i].id : i \in
        {j \in 1..Len(folders) :
           \/ filterText = ""
           \/ includes(folders[j].name, filterText)
           \/ \E a \in itemsInFolder(s, rt, folders[j].id, enumerated) :
                 includes(ItemName(a), filterText)}}

\* ids of the folder nodes getChildren(folder node of folderId) returns
subFolders(s, rt, folderId, filterText) ==
  IF rt \in FlatKinds THEN {}
  ELSE LET folders == getChildFolders(s, rt, folderId)
       IN {folders[i].id : i \in
             {j \in 1..Len(folders) :
                \/ filterText = ""
                \/ includes(folders[j].name, filterText)
                \/ countItemsRecursive(s, rt, folders[j].id) # 0}}

\* keys of the item nodes getChildren() returns at root
rootItems(s, rt, filterText, enumerated) ==
  applyFilter(itemsInFolder(s, rt, Undefined, enumerated), filterText)

\* keys of the item nodes getChildren(folder node of folderId) returns
itemsOfFolder(s, rt, folderId, filterText, enumerated) ==
  applyFilter(itemsInFolder(s, rt, folderId, enumerated), filterText)

\* the childCount handed to FolderItem, shown as the node's description
childCount(s, rt, folderId, enumerated) ==
  IF rt \in FlatKinds
  THEN Cardinality(itemsInFolder(s, rt, folderId, enumerated))
  ELSE countItemsRecursive(s, rt, folderId)

\* the subFolderCount handed to FolderItem, shown in the tooltip: the
\* providers of skill and mcp leave it to its default
subFolderCount(s, rt, folderId) ==
  IF rt \in FlatKinds THEN 0 ELSE Len(getChildFolders(s, rt, folderId))

\* ids of the folder nodes getChildren returns when the root nodes and the
\* folder nodes returned are expanded n times
RECURSIVE ShownFrom(_, _, _, _, _)
ShownFrom(s, rt, S, filterText, n) ==
  IF n = 0 THEN S
  ELSE ShownFrom(s, rt,
                 S \cup UNION {subFolders(s, rt, P, filterText) : P \in S},
                 filterText, n - 1)

\* ids of the folder nodes of the tree with every folder node expanded
ShownFolders(s, rt, filterText, enumerated) ==
  ShownFrom(s, rt, rootFolders(s, rt, filterText, enumerated), filterText,
            Len(getFolders(s, rt)))

\* the enumerated items in the order the providers hold them
Enumeration == <<"k1", "k2">>

\* the scope of an enumerated MCP server: its configuration file
ItemScope(key) == IF key = "k2" THEN "global" ELSE "project"

\* a.localeCompare(b) < 0, = 0, > 0 for names of one letter
NameRank(name) == IF name = "a" THEN 1 ELSE IF name = "b" THEN 2 ELSE 3

\* the comparator of the items at the root of the view of mcp: global
\* first, then by name; everywhere else by name
ItemRank(rt, atRoot, key) ==
  IF rt = "mcp" /\ atRoot
  THEN (IF ItemScope(key) = "global" THEN 0 ELSE 3) + NameRank(ItemName(key))
  ELSE NameRank(ItemName(key))

MaxRank == 6

\* Array.prototype.sort, stable: the elements of seq in ranks r..MaxRank
RECURSIVE sortFrom(_, _, _)
sortFrom(seq, rank, r) ==
  IF r > MaxRank THEN <<>>
  ELSE SelectSeq(seq, LAMBDA x : rank[x] = r) \o sortFrom(seq, rank, r + 1)

\* the nodes getChildren returns, in order, for the root (parent undefined)
\* or for the folder node of parent: folder nodes, then item nodes
childrenList(s, rt, parent, filterText, enumerated) ==
  LET ids     == IF parent = Undefined
                 THEN rootFolders(s, rt, filterText, enumerated)
                 ELSE subFolders(s, rt, parent, filterText)
      keys    == IF parent = Undefined
                 THEN rootItems(s, rt, filterText, enumerated)
                 ELSE itemsOfFolder(s, rt, parent, filterText, enumerated)
      folders == SelectSeq(getFolders(s, rt), LAMBDA f : f.id \in ids)
      items   == SelectSeq(Enumeration, LAMBDA a : a \in keys)
      sortedFolders ==
        sortFrom(folders,
                 [f \in {folders[i] : i \in 1..Len(folders)} |-> NameRank(f.name)], 1)
      sortedItems ==
        sortFrom(items,
                 [a \in keys |-> ItemRank(rt, parent = Undefined, a)], 1)
  IN [i \in 1..Len(sortedFolders) |->
        [itemType |-> "folder", name |-> sortedFolders[i].name]]
     \o [i \in 1..Len(sortedItems) |->
          [itemType |-> "item", name |-> ItemName(sortedItems[i])]]

\* variant: every subscriber refreshes on every event
onDidChangeAnyKind(view, type) == 1

\* the listener of the provider of kind view: the number of times it fires
\* _onDidChangeTreeData for an event of kind type
onDidChange(view, type) == IF type = view THEN 1 ELSE 0

\* the calls of countItemsRecursive nest at most depth deep: FALSE when the
\* recursion from folderId is still going down after depth nested calls
RECURSIVE ReturnsWithin(_, _, _, _)
ReturnsWithin(s, rt, folderId, depth) ==
  IF depth = 0 THEN FALSE
  ELSE \A i \in 1..Len(getChildFolders(s, rt, folderId)) :
          ReturnsWithin(s, rt, getChildFolders(s, rt, folderId)[i].id, depth - 1)

\* ---- id generation -----------------------------------------------------
\* variant: a generator that can return the id it returned before
generateIdRepeating(n) == IF n = 0 THEN n + 1 ELSE n

\* variant: two values only, so that the third id is the first again
generateIdWrapping(n) == (n % 2) + 1

generateId(n) == n + 1

\* ---- the synchronous part of each mutator ------------------------------
Restrict(f, S) == [x \in S |-> f[x]]

\* for (key, value) of Object.entries(assignments): if value === id, delete
ClearAssignments(s, rt, id) ==
  [s EXCEPT !.assignments[rt] =
     Restrict(@, {p \in DOMAIN @ : @[p] # id})]

\* variant: the folder id is filtered out of the list of every kind
RemoveFolderAllKinds(s, rt, id) ==
  [s EXCEPT !.folders =
     [k \in ResourceTypes |-> SelectSeq(s.folders[k], LAMBDA f : f.id # id)]]

\* this.state.folders[rt] = this.state.folders[rt].filter(f => f.id !== id)
RemoveFolder(s, rt, id) ==
  [s EXCEPT !.folders[rt] = SelectSeq(@, LAMBDA f : f.id # id)]

\* variant: the child folders are removed, their assignments are kept
RECURSIVE DeleteChildrenOnly(_, _, _, _)
DeleteChildrenOnly(s, rt, childFolders, i) ==
  IF i > Len(childFolders) THEN s
  ELSE DeleteChildrenOnly(RemoveFolder(s, rt, childFolders[i].id),
                          rt, childFolders, i + 1)

\* the loop of deleteFolder over childFolders, from index i
RECURSIVE DeleteChildren(_, _, _, _)
DeleteChildren(s, rt, childFolders, i) ==
  IF i > Len(childFolders) THEN s
  ELSE DeleteChildren(
         RemoveFolder(ClearAssignments(s, rt, childFolders[i].id),
                      rt, childFolders[i].id),
         rt, childFolders, i + 1)

\* variant: the state after the loop over the child folders only
deleteFolderChildrenPhase(s, rt, folderId) ==
  DeleteChildren(s, rt, getChildFolders(s, rt, folderId), 1)

deleteFolderState(s, rt, folderId) ==
  RemoveFolder(
    ClearAssignments(
      DeleteChildren(s, rt, getChildFolders(s, rt, folderId), 1),
      rt, folderId),
    rt, folderId)

\* variant: a parentId that is not a folder of the kind is replaced by none
createFolderAtRootIfMissing(s, rt, id, name, parentId) ==
  [s EXCEPT !.folders[rt] =
     Append(@, [id |-> id, name |-> name,
                parentId |-> IF \E i \in 1..Len(s.folders[rt]) :
                                   s.folders[rt][i].id = parentId
                             THEN parentId ELSE Undefined,
                resourceType |-> rt])]

\* variant: a name that a sibling has is refused
createFolderUniqueName(s, rt, id, name, parentId) ==
  IF \E i \in 1..Len(s.folders[rt]) :
        /\ s.folders[rt][i].name = name
        /\ s.folders[rt][i].parentId = parentId
  THEN s
  ELSE [s EXCEPT !.folders[rt] =
          Append(@, [id |-> id, name |-> name, parentId |-> parentId,
                     resourceType |-> rt])]

createFolderState(s, rt, id, name, parentId) ==
  [s EXCEPT !.folders[rt] =
     Append(@, [id |-> id, name |-> name, parentId |-> parentId,
                resourceType |-> rt])]

HasFolder(s, rt, folderId) ==
  \E i \in 1..Len(s.folders[rt]) : s.folders[rt][i].id = folderId

\* variant: the folder is replaced by a new one at root with the new name
renameFolderReplacing(s, rt, folderId, newName) ==
  IF HasFolder(s, rt, folderId)
  THEN [s EXCEPT !.folders[rt] =
          Append(SelectSeq(@, LAMBDA f : f.id # folderId),
                 [id |-> folderId, name |-> newName, parentId |-> Undefined,
                  resourceType |-> rt])]
  ELSE s

\* find() returns the first folder with the id; its name is overwritten
renameFolderState(s, rt, folderId, newName) ==
  IF HasFolder(s, rt, folderId)
  THEN LET i == CHOOSE j \in 1..Len(s.folders[rt]) :
                  /\ s.folders[rt][j].id = folderId
                  /\ \A h \in 1..(j - 1) : s.folders[rt][h].id # folderId
       IN [s EXCEPT !.folders[rt][i].name = newName]
  ELSE s

\* variant: moving to root empties the assignment map of the kind
assignOneClearing(s, rt, filePath, folderId) ==
  IF folderId = Undefined
  THEN [s EXCEPT !.assignments[rt] = Restrict(@, {})]
  ELSE [s EXCEPT !.assignments[rt] =
          [p \in DOMAIN @ \cup {filePath} |->
             IF p = filePath THEN folderId ELSE @[p]]]

\* variant: an entry that exists is not overwritten
assignOneKeeping(s, rt, filePath, folderId) ==
  IF folderId = Undefined
  THEN [s EXCEPT !.assignments[rt] = Restrict(@, DOMAIN @ \ {filePath})]
  ELSE [s EXCEPT !.assignments[rt] =
          [p \in DOMAIN @ \cup {filePath} |->
             IF p \in DOMAIN @ THEN @[p] ELSE folderId]]

assignOne(s, rt, filePath, folderId) ==
  IF folderId = Undefined
  THEN [s EXCEPT !.assignments[rt] = Restrict(@, DOMAIN @ \ {filePath})]
  ELSE [s EXCEPT !.assignments[rt] =
          [p \in DOMAIN @ \cup {filePath} |->
             IF p = filePath THEN folderId ELSE @[p]]]

\* variant: only the first path of the array is assigned
assignItemsFirstOnly(s, rt, filePaths, folderId, i) ==
  IF Len(filePaths) = 0 THEN s
  ELSE assignOne(s, rt, filePaths[1], folderId)

\* the loop of assignItemsToFolder over filePaths, from index i
RECURSIVE assignItemsState(_, _, _, _, _)
assignItemsState(s, rt, filePaths, folderId, i) ==
  IF i > Len(filePaths) THEN s
  ELSE assignItemsState(assignOne(s, rt, filePaths[i], folderId),
                        rt, filePaths, folderId, i + 1)

\* ---- bookkeeping of calls ----------------------------------------------
NoCall == [op |-> "none", n |-> 0]

NoReq == [kind |-> "none"]

NoQuickPick == [open |-> FALSE]

\* no view has called getChildren yet
NothingRendered == [rt \in ResourceTypes |-> {}]

\* private agents: AgentItem[] = [], until the first load has resolved
NothingEnumerated == [rt \in ResourceTypes |-> {}]

CallRec(op, rt, folderId, name, filePaths, pre) ==
  [op |-> op, resourceType |-> rt, folderId |-> folderId, name |-> name,
   filePaths |-> filePaths, pre |-> pre]

\* variant: the write is started before the state is changed
StartSaveStale(op, rt, s) ==
  /\ Len(pending) < MaxPending
  /\ calls' = calls + 1
  /\ done' = NoCall
  /\ pending' = Append(pending, [n |-> calls + 1, op |-> op,
                                 resourceType |-> rt, blob |-> state])

\* saveState(): one globalState.update with the state as it is at the call
StartSave(op, rt, s) ==
  /\ Len(pending) < MaxPending
  /\ calls' = calls + 1
  /\ done' = NoCall
  /\ pending' = Append(pending, [n |-> calls + 1, op |-> op,
                                 resourceType |-> rt, blob |-> s])

\* the call that ended, as its caller and the subscribers saw it: n is the
\* number of the call, write what became of its write, blob what it wrote
Settled(n, op, rt, outcome, found, write, blob, fired) ==
  [n |-> n, op |-> op, resourceType |-> rt, outcome |-> outcome,
   found |-> found, write |-> write,
   writes |-> IF write = "none" THEN 0 ELSE 1, blob |-> blob, fired |-> fired]

\* a TypeError before saveState: the call is rejected with the state as s
Thrown(op, rt, s) ==
  /\ calls' = calls + 1
  /\ state' = s
  /\ done' = Settled(calls + 1, op, rt, "threw", FALSE, "none", s, <<>>)
  /\ UNCHANGED <<stored, pending>>

\* variant: the event is fired before and after the write
fireTwice(rt) == <<rt, rt>>

\* this._onDidChange.fire(resourceType): the events one settled call emits
fire(rt) == <<rt>>

MintedIds  == 1..minted
FolderIds  == MintedIds \cup {GhostId}
FolderArgs == FolderIds \cup {Undefined}

Init ==
  /\ calls = 0
  /\ stored = NoBlob
  /\ state = loadState(stored)
  /\ minted = 0
  /\ pending = <<>>
  /\ done = NoCall
  /\ last = NoCall
  /\ req = NoReq
  /\ rendered = NothingRendered
  /\ quickPick = NoQuickPick
  /\ loaded = NothingEnumerated

\* ---- the mutators ------------------------------------------------------
createFolder(rt, name, parentId) ==
  /\ minted < MaxFolders
  /\ minted' = generateId(minted)
  /\ last' = CallRec("createFolder", rt, parentId, name, <<>>, state)
  /\ IF rt \in DOMAIN state.folders
     THEN LET s == createFolderState(state, rt, generateId(minted), name, parentId)
          IN /\ state' = s
             /\ StartSave("createFolder", rt, s)
             /\ UNCHANGED stored
     ELSE \* push on undefined
          Thrown("createFolder", rt, state)

\* variant: the write and the event are outside the if
renameFolderNotifying(rt, folderId, newName) ==
  /\ last' = CallRec("renameFolder", rt, folderId, newName, <<>>, state)
  /\ UNCHANGED minted
  /\ IF rt \notin DOMAIN state.folders
     THEN Thrown("renameFolder", rt, state)
     ELSE LET s == renameFolderState(state, rt, folderId, newName)
          IN /\ state' = s
             /\ StartSave("renameFolder", rt, s)
             /\ UNCHANGED stored

renameFolder(rt, folderId, newName) ==
  /\ last' = CallRec("renameFolder", rt, folderId, newName, <<>>, state)
  /\ UNCHANGED minted
  /\ IF rt \notin DOMAIN state.folders
     THEN \* find on undefined
          Thrown("renameFolder", rt, state)
     ELSE IF HasFolder(state, rt, folderId)
     THEN LET s == renameFolderState(state, rt, folderId, newName)
          IN /\ state' = s
             /\ StartSave("renameFolder", rt, s)
             /\ UNCHANGED stored
     ELSE \* folder not found: returns without a write and without an event
          /\ done' = Settled(calls + 1, "renameFolder", rt, "returned", FALSE,
                             "none", state, <<>>)
          /\ calls' = calls + 1
          /\ UNCHANGED <<state, stored, pending>>

deleteFolder(rt, folderId) ==
  /\ last' = CallRec("deleteFolder", rt, folderId, "", <<>>, state)
  /\ UNCHANGED minted
  /\ IF rt \notin DOMAIN state.assignments
     THEN \* Object.entries of undefined, before anything is removed
          Thrown("deleteFolder", rt, state)
     ELSE IF rt \notin DOMAIN state.folders
     THEN \* no child is found, the assignments to folderId are removed,
          \* then filter on undefined
          Thrown("deleteFolder", rt, ClearAssignments(state, rt, folderId))
     ELSE LET s == deleteFolderState(state, rt, folderId)
          IN /\ state' = s
             /\ StartSave("deleteFolder", rt, s)
             /\ UNCHANGED stored

assignItemToFolder(rt, filePath, folderId) ==
  /\ last' = CallRec("assignItemToFolder", rt, folderId, "", <<filePath>>, state)
  /\ UNCHANGED minted
  /\ IF rt \notin DOMAIN state.assignments
     THEN \* a property of undefined is deleted or set
          Thrown("assignItemToFolder", rt, state)
     ELSE LET s == assignOne(state, rt, filePath, folderId)
          IN /\ state' = s
             /\ StartSave("assignItemToFolder", rt, s)
             /\ UNCHANGED stored

assignItemsToFolder(rt, filePaths, folderId) ==
  /\ last' = CallRec("assignItemsToFolder", rt, folderId, "", filePaths, state)
  /\ UNCHANGED minted
  /\ IF rt \notin DOMAIN state.assignments /\ filePaths # <<>>
     THEN \* the first turn of the loop throws
          Thrown("assignItemsToFolder", rt, state)
     ELSE LET s == IF filePaths = <<>> THEN state
                   ELSE assignItemsState(state, rt, filePaths, folderId, 1)
          IN /\ state' = s
             /\ StartSave("assignItemsToFolder", rt, s)
             /\ UNCHANGED stored

\* ---- settlement of the awaited write -----------------------------------
\* the write succeeded: the blob is stored, the mutator fires and returns
SaveDone ==
  /\ pending # <<>>
  /\ stored' = toJSON(Head(pending).blob)
  /\ done' = Settled(Head(pending).n, Head(pending).op,
                     Head(pending).resourceType, "returned", TRUE, "stored",
                     Head(pending).blob, fire(Head(pending).resourceType))
  /\ pending' = Tail(pending)
  /\ UNCHANGED <<calls, state, minted, last, req, ui>>

\* variant: the event is fired in a finally block, also when the write failed
SaveFailedFiring ==
  /\ pending # <<>>
  /\ done' = Settled(Head(pending).n, Head(pending).op,
                     Head(pending).resourceType, "threw", TRUE, "rejected",
                     Head(pending).blob, fire(Head(pending).resourceType))
  /\ pending' = Tail(pending)
  /\ UNCHANGED <<calls, state, minted, stored, last, req, ui>>

\* variant: a rejected write puts the state back to what is stored
SaveFailedRollingBack ==
  /\ pending # <<>>
  /\ done' = Settled(Head(pending).n, Head(pending).op,
                     Head(pending).resourceType, "threw", TRUE, "rejected",
                     Head(pending).blob, <<>>)
  /\ pending' = Tail(pending)
  /\ state' = loadState(stored)
  /\ UNCHANGED <<calls, minted, stored, last, req, ui>>

\* the write was rejected: await rethrows, nothing is fired
SaveFailed ==
  /\ pending # <<>>
  /\ done' = Settled(Head(pending).n, Head(pending).op,
                     Head(pending).resourceType, "threw", TRUE, "rejected",
                     Head(pending).blob, <<>>)
  /\ pending' = Tail(pending)
  /\ UNCHANGED <<calls, state, minted, stored, last, req, ui>>

\* ---- drops and move commands ---------------------------------------------
\* tree nodes as the handlers read them
ItemNode(rt, key) == [itemType |-> "item", resourceType |-> rt, key |-> key]
FolderNode(rt, id) == [itemType |-> "folder", resourceType |-> rt, id |-> id]
NoNode == [itemType |-> "none"]

isFolderItem(node) == node.itemType = "folder"

\* variant: a drop on an item goes to the folder the item is in
targetFolderIdOfItem(s, view, target) ==
  IF isFolderItem(target) THEN target.id
  ELSE IF target.itemType = "item" THEN getFolderForItem(s, view, target.key)
  ELSE Undefined

\* let targetFolderId; if (isFolderItem(target)) targetFolderId = target.folder.id
targetFolderId(s, view, target) ==
  IF isFolderItem(target) THEN target.id ELSE Undefined

\* what a request leaves for the properties: what was asked, and the state
\* and the number of calls it found
Request(kind, view, from, keys, target) ==
  [kind |-> kind, view |-> view, from |-> from, keys |-> keys,
   target |-> target, pre |-> state, calls |-> calls]

\* the handler returns without a call of the manager
NoManagerCall ==
  UNCHANGED <<calls, state, minted, stored, pending, done, last>>

\* handleDrop of the view of kind view: the payload was dragged from the
\* view of kind from and holds filePaths
handleDrop(view, target, from, filePaths) ==
  /\ req' = Request("drop", view, from, filePaths, target)
  /\ UNCHANGED ui
  /\ IF from # view \/ Len(filePaths) = 0
     THEN \* no transfer item of this view's type, or an empty one
          NoManagerCall
     ELSE assignItemsToFolder(view, filePaths,
                              targetFolderId(state, view, target))

\* the selected nodes that are not folders
validItems(items) == SelectSeq(items, LAMBDA i : i.itemType # "folder")

\* variant: the comparison starts after the second item
mixedTypesAfterSecond(valid) ==
  \E i \in 3..Len(valid) : valid[i].resourceType # valid[1].resourceType

\* validItems.some(i => i.resourceType !== validItems[0].resourceType)
mixedTypes(valid) ==
  \E i \in 1..Len(valid) : valid[i].resourceType # valid[1].resourceType

keysOf(valid) == [i \in 1..Len(valid) |-> valid[i].key]

\* the folder ids addFolderOptions pushes for the folders under parentId
RECURSIVE addFolderOptions(_, _)
addFolderOptions(allFolders, parentId) ==
  LET children == SelectSeq(allFolders, LAMBDA f : Prop(f, "parentId") = parentId)
  IN UNION {{children[i].id} \cup addFolderOptions(allFolders, children[i].id)
              : i \in 1..Len(children)}

\* the folderId of the entries of the quick pick: root level first
options(s, rt) == {Undefined} \cup addFolderOptions(getFolders(s, rt), Undefined)

Dismissed == [picked |-> FALSE, folderId |-> Undefined]

\* claudeCodeBrowser.moveToFolder with the nodes in items selected, up to
\* await showQuickPick: the quick pick holds the options built from the
\* folders of this moment
moveToFolder(items) ==
  LET valid == validItems(items)
  IN /\ ~quickPick.open
     /\ req' = Request("moveToFolder", "", "", items, NoNode)
     /\ NoManagerCall
     /\ UNCHANGED <<rendered, loaded>>
     /\ IF Len(valid) = 0 \/ mixedTypes(valid)
        THEN UNCHANGED quickPick
        ELSE IF options(state, valid[1].resourceType) = {Undefined}
        THEN \* no folders exist
             UNCHANGED quickPick
        ELSE quickPick' = [open |-> TRUE, req |-> req',
                           resourceType |-> valid[1].resourceType,
                           keys |-> keysOf(valid),
                           options |-> options(state, valid[1].resourceType)]

\* moveToFolder from the moment showQuickPick resolves with selected: pick
\* is one of the options shown, or the quick pick was dismissed
moveToFolderSelected(pick) ==
  /\ quickPick.open
  /\ quickPick' = NoQuickPick
  /\ req' = quickPick.req
  /\ UNCHANGED <<rendered, loaded>>
  /\ IF ~pick.picked
     THEN NoManagerCall
     ELSE /\ pick.folderId \in quickPick.options
          /\ assignItemsToFolder(quickPick.resourceType, quickPick.keys,
                                 pick.folderId)

\* claudeCodeBrowser.moveToRoot with the nodes in items selected
moveToRoot(items) ==
  LET valid == validItems(items)
  IN /\ req' = Request("moveToRoot", "", "", items, NoNode)
     /\ UNCHANGED ui
     /\ IF Len(valid) = 0 \/ mixedTypes(valid)
        THEN NoManagerCall
        ELSE assignItemsToFolder(valid[1].resourceType, keysOf(valid), Undefined)

\* the host calls getChildren of the view for the root and for every folder
\* node returned: the folder nodes the user can act on are replaced
getChildren(view) ==
  /\ rendered' = [rendered EXCEPT ![view] =
                    ShownFolders(state, view, "", loaded[view])]
  /\ UNCHANGED <<calls, state, minted, stored, pending, done, last, req,
                 quickPick, loaded>>

\* variant: a reload removes the entries of the keys it did not find
loadItemsPruning(view, found) ==
  /\ loaded' = [loaded EXCEPT ![view] = found]
  /\ req' = [kind |-> "load", view |-> view, was |-> loaded[view],
             pre |-> state, calls |-> calls]
  /\ state' = [state EXCEPT !.assignments[view] = Restrict(@, DOMAIN @ \cap found)]
  /\ UNCHANGED <<calls, minted, stored, pending, done, last, rendered,
                 quickPick>>

\* refresh() of the provider of kind view, from the moment the directory is
\* parsed: the items held are replaced by those found
loadItems(view, found) ==
  /\ loaded' = [loaded EXCEPT ![view] = found]
  /\ req' = [kind |-> "load", view |-> view, was |-> loaded[view],
             pre |-> state, calls |-> calls]
  /\ UNCHANGED <<calls, state, minted, stored, pending, done, last, rendered,
                 quickPick>>

\* handleDrag of the view of kind view: the file paths set on the data
\* transfer are those of the dragged nodes that are items of the view
handleDrag(view, source) ==
  keysOf(SelectSeq(source, LAMBDA n : n.itemType = "item" /\ n.resourceType = view))

\* claudeCodeBrowser.createFolder from the title bar of the view of kind rt,
\* with the name typed
createFolderCommand(rt, name) ==
  /\ createFolder(rt, name, Undefined)
  /\ req' = NoReq
  /\ UNCHANGED ui

\* claudeCodeBrowser.createSubfolder on the folder node item
createSubfolder(item, name) ==
  /\ isFolderItem(item)
  /\ createFolder(item.resourceType, name, item.id)
  /\ req' = NoReq
  /\ UNCHANGED ui

\* claudeCodeBrowser.renameFolder on the folder node item: item.folder is the
\* folder object of the state, no call when newName is the name it has
renameFolderCommand(item, newName) ==
  /\ isFolderItem(item)
  /\ \A i \in 1..Len(getFolders(state, item.resourceType)) :
       getFolders(state, item.resourceType)[i].id = item.id
         => getFolders(state, item.resourceType)[i].name # newName
  /\ renameFolder(item.resourceType, item.id, newName)
  /\ req' = NoReq
  /\ UNCHANGED ui

\* claudeCodeBrowser.deleteFolder on the folder node item, confirmed
deleteFolderCommand(item) ==
  /\ isFolderItem(item)
  /\ deleteFolder(item.resourceType, item.id)
  /\ req' = NoReq
  /\ UNCHANGED ui

\* the calls the environment can make: at most limit of them, with kinds
\* drawn from types
Calls(types, limit) ==
  \/ \E rt \in types, name \in FolderNames, parentId \in FolderArgs :
       calls < limit /\ createFolder(rt, name, parentId) /\ req' = NoReq
         /\ UNCHANGED ui
  \/ \E rt \in types, folderId \in FolderIds, newName \in NewNames :
       calls < limit /\ renameFolder(rt, folderId, newName) /\ req' = NoReq
         /\ UNCHANGED ui
  \/ \E rt \in types, folderId \in FolderIds :
       calls < limit /\ deleteFolder(rt, folderId) /\ req' = NoReq
         /\ UNCHANGED ui
  \/ \E rt \in types, filePath \in ItemKeys, folderId \in FolderArgs :
       calls < limit /\ assignItemToFolder(rt, filePath, folderId) /\ req' = NoReq
         /\ UNCHANGED ui
  \/ \E rt \in types, filePaths \in FilePathArrays, folderId \in FolderArgs :
       calls < limit /\ assignItemsToFolder(rt, filePaths, folderId) /\ req' = NoReq
         /\ UNCHANGED ui

\* one kind, every write succeeds
Next == Calls(OneType, MaxCalls) \/ SaveDone

Spec == Init /\ [][Next]_vars

\* two kinds and one call fewer, every write succeeds
NextKinds == Calls(TwoTypes, MaxCalls - 1) \/ SaveDone

SpecKinds == Init /\ [][NextKinds]_vars

\* one kind and one call fewer, a write may be rejected
NextFailing == Calls(OneType, MaxCalls - 1) \/ SaveDone \/ SaveFailed

SpecFailing == Init /\ [][NextFailing]_vars

\* the extension host restarts while no write is in flight: activate
\* constructs a new FolderManager, whose state is loaded from globalState
activate ==
  /\ pending = <<>>
  /\ state' = loadState(stored)
  /\ last' = CallRec("activate", "", Undefined, "", <<>>, state)
  /\ done' = NoCall
  /\ UNCHANGED <<calls, minted, stored, pending, req, ui>>

\* the extension starts with some blob in globalState; then two calls fewer
\* of kind mcp, a write may be rejected, and the extension may restart
InitLoad ==
  /\ calls = 0
  /\ stored \in PersistedBlobs
  /\ state = loadState(stored)
  /\ minted = IdsIn(state)
  /\ pending = <<>>
  /\ done = NoCall
  /\ last = NoCall
  /\ req = NoReq
  /\ rendered = NothingRendered
  /\ quickPick = NoQuickPick
  /\ loaded = NothingEnumerated

NextLoad ==
  Calls(LoadType, MaxCalls - 2) \/ SaveDone \/ SaveFailed \/ activate

SpecLoad == InitLoad /\ [][NextLoad]_vars

\* what the user can select for a move command
Selections ==
  {<<ItemNode("skill", "k1")>>,
   <<ItemNode("skill", "k1"), ItemNode("skill", "k2")>>,
   <<ItemNode("skill", "k1"), ItemNode("agent", "k2")>>,
   <<FolderNode("agent", 1), ItemNode("skill", "k2")>>,
   <<FolderNode("skill", 1)>>}

\* where a drop can land in the view of a kind: outside every node, on an
\* item, on a folder shown in the view
DropTargets(view) ==
  {NoNode, ItemNode(view, "k1")}
    \cup {FolderNode(view, F) : F \in options(state, view) \ {Undefined}}

Picks == {Dismissed} \cup {[picked |-> TRUE, folderId |-> F] : F \in FolderArgs}

\* folders are created at root or in a folder, items are dropped and moved
\* in the views of two kinds, one command at a time: an open quick pick is
\* answered before anything else is done; every write succeeds
NextUI ==
  \/ \E rt \in TwoTypes, name \in FolderNames, parentId \in MintedIds \cup {Undefined} :
       /\ calls < MaxCalls - 1
       /\ ~quickPick.open
       /\ createFolder(rt, name, parentId)
       /\ req' = NoReq
       /\ UNCHANGED ui
  \/ \E view \in TwoTypes, from \in TwoTypes, filePaths \in FilePathArrays :
       \E target \in DropTargets(view) :
          calls < MaxCalls - 1 /\ ~quickPick.open
            /\ handleDrop(view, target, from, filePaths)
  \/ \E items \in Selections :
       calls < MaxCalls - 1 /\ moveToFolder(items)
  \/ \E pick \in Picks :
       calls < MaxCalls - 1 /\ moveToFolderSelected(pick)
  \/ \E items \in Selections :
       calls < MaxCalls - 1 /\ ~quickPick.open /\ moveToRoot(items)
  \/ SaveDone

SpecUI == Init /\ [][NextUI]_vars

CommandKinds == {"agent"}

\* direct calls of kind agent, one call fewer, while the provider reloads
\* its items and finds any of them; every write succeeds
NextReload ==
  \/ Calls(CommandKinds, MaxCalls - 1)
  \/ \E view \in CommandKinds, found \in SUBSET ItemKeys : loadItems(view, found)
  \/ SaveDone

SpecReload == Init /\ [][NextReload]_vars

\* the folder nodes the view of a kind shows
RenderedNodes(view) == {FolderNode(view, F) : F \in rendered[view]}

\* the nodes the user can drag or select in the view of kind agent
AgentSelections ==
  {<<ItemNode("agent", "k1")>>,
   <<ItemNode("agent", "k1"), ItemNode("agent", "k2")>>,
   <<FolderNode("agent", 1), ItemNode("agent", "k2")>>}

\* the folder commands, the move commands and drops of the view of kind
\* agent, on the folder nodes the view has rendered; one call fewer, every
\* write succeeds
NextCommands ==
  \/ \E rt \in CommandKinds, name \in FolderNames :
       calls < MaxCalls - 1 /\ createFolderCommand(rt, name)
  \/ \E rt \in CommandKinds, name \in FolderNames :
       \E item \in RenderedNodes(rt) :
          calls < MaxCalls - 1 /\ createSubfolder(item, name)
  \/ \E rt \in CommandKinds, newName \in NewNames :
       \E item \in RenderedNodes(rt) :
          calls < MaxCalls - 1 /\ renameFolderCommand(item, newName)
  \/ \E rt \in CommandKinds :
       \E item \in RenderedNodes(rt) :
          calls < MaxCalls - 1 /\ deleteFolderCommand(item)
  \/ \E view \in CommandKinds, source \in AgentSelections :
       \E target \in {NoNode} \cup RenderedNodes(view) :
          calls < MaxCalls - 1
            /\ handleDrop(view, target, view, handleDrag(view, source))
  \/ \E items \in AgentSelections :
       calls < MaxCalls - 1 /\ moveToFolder(items)
  \/ \E pick \in Picks :
       calls < MaxCalls - 1 /\ moveToFolderSelected(pick)
  \/ \E items \in AgentSelections :
       calls < MaxCalls - 1 /\ moveToRoot(items)
  \/ \E view \in CommandKinds : getChildren(view)
  \/ SaveDone

SpecCommands == Init /\ [][NextCommands]_vars

\* ---- vocabulary of the properties ---------------------------------------
Range(seq) == {seq[i] : i \in 1..Len(seq)}

FolderIdsOf(s, rt) == {f.id : f \in Range(s.folders[rt])}

AssignedIds(s, rt) == {s.assignments[rt][p] : p \in DOMAIN s.assignments[rt]}

\* ids reachable from the ids in S by n steps from parent to child
RECURSIVE Below(_, _, _, _)
Below(s, rt, S, n) ==
  IF n = 0 THEN S
  ELSE Below(s, rt,
             S \cup {f.id : f \in {g \in Range(s.folders[rt]) : g.parentId \in S}},
             n - 1)

\* folderId and the ids of all its descendants, at any depth
Subtree(s, rt, folderId) == Below(s, rt, {folderId}, Len(s.folders[rt]))

\* ids reachable from the ids in S by n steps from child to parentId
RECURSIVE Above(_, _, _, _)
Above(s, rt, S, n) ==
  IF n = 0 THEN S
  ELSE Above(s, rt,
             S \cup {f.parentId : f \in {g \in Range(s.folders[rt]) : g.id \in S}},
             n - 1)

\* what walking parentId pointers from folder f visits after leaving f
Ancestors(s, rt, f) == Above(s, rt, {f.parentId}, Len(s.folders[rt]))

\* ---- C1 ------------------------------------------------------------------
\* C1: after deleteFolder(kind, F) of a folder F, neither F nor any folder
\* that was a descendant of F at any depth is in getFolders(kind), and no
\* assignment entry of the kind points at F or at such a descendant.
C1_DeleteCascadesFully ==
  (last.op = "deleteFolder"
     /\ HasFolder(last.pre, last.resourceType, last.folderId)) =>
    LET rt == last.resourceType
        gone == Subtree(last.pre, rt, last.folderId)
    IN /\ FolderIdsOf(state, rt) \cap gone = {}
       /\ AssignedIds(state, rt) \cap gone = {}

\* ---- C2 ------------------------------------------------------------------
RECURSIVE SumChildCounts(_, _, _)
SumChildCounts(s, rt, I) ==
  IF I = {} THEN 0
  ELSE LET i == CHOOSE j \in I : TRUE
       IN countItemsRecursive(s, rt, s.folders[rt][i].id)
            + SumChildCounts(s, rt, I \ {i})

ChildIndexes(s, rt, folderId) ==
  {i \in 1..Len(s.folders[rt]) : s.folders[rt][i].parentId = folderId}

\* C2: in every reachable state, for every folder id F of a kind,
\* countItemsRecursive(kind, F) is the number of keys of
\* getItemsInFolder(kind, F) plus the sum of countItemsRecursive(kind, child)
\* over the folders of getChildFolders(kind, F).
C2_RecursiveCountConsistency ==
  \A rt \in ResourceTypes : \A F \in FolderIds :
     countItemsRecursive(state, rt, F) =
       Cardinality(getItemsInFolder(state, rt, F))
         + SumChildCounts(state, rt, ChildIndexes(state, rt, F))

\* a folder with items of its own and more items below it
C2_Witness ==
  \E rt \in ResourceTypes : \E F \in FolderIdsOf(state, rt) :
     /\ getItemsInFolder(state, rt, F) # {}
     /\ ChildIndexes(state, rt, F) # {}
     /\ countItemsRecursive(state, rt, F)
          > Cardinality(getItemsInFolder(state, rt, F))

\* ---- C3 ------------------------------------------------------------------
\* C3: in every reachable state, following parentId pointers from a folder
\* never comes back to that folder.
C3_ForestInvariant ==
  \A rt \in ResourceTypes : \A f \in Range(state.folders[rt]) :
     f.id \notin Ancestors(state, rt, f)

\* a folder was created under the id of a folder that had been deleted
C3_Witness ==
  /\ last.op = "createFolder"
  /\ last.folderId \in MintedIds
  /\ ~HasFolder(last.pre, last.resourceType, last.folderId)
  /\ Len(state.folders[last.resourceType]) > 1

\* ---- C4 ------------------------------------------------------------------
\* C4: a mutator call made with kind A changes neither the folder list nor
\* the assignment map of any other kind B.
C4_NoCrossKindLeakage ==
  last.op # "none" =>
    \A B \in ResourceTypes \ {last.resourceType} :
       /\ getFolders(state, B) = getFolders(last.pre, B)
       /\ state.assignments[B] = last.pre.assignments[B]

\* a key was assigned in one kind to an id that is a folder of another
\* kind, where the same key is assigned to that folder
C4_Witness ==
  /\ last.op \in {"assignItemToFolder", "assignItemsToFolder"}
  /\ state # last.pre
  /\ \E B \in ResourceTypes \ {last.resourceType} :
       /\ last.folderId \in FolderIdsOf(state, B)
       /\ \E i \in 1..Len(last.filePaths) :
            getFolderForItem(state, B, last.filePaths[i]) = last.folderId

\* ---- C5 ------------------------------------------------------------------
\* C5: assignItemsToFolder(kind, keys, F) leaves getFolderForItem(kind, k)
\* equal to F for every k of keys (absent when F is absent), and the call
\* makes one persistence write and fires one change notification.
C5_BatchMove ==
  /\ last.op = "assignItemsToFolder" =>
       \A i \in 1..Len(last.filePaths) :
          getFolderForItem(state, last.resourceType, last.filePaths[i])
            = last.folderId
  /\ (done.op = "assignItemsToFolder" /\ done.outcome = "returned") =>
       /\ done.writes = 1
       /\ Len(done.fired) = 1

\* a settled batch of two keys, one of which came from another folder
C5_Witness ==
  /\ last.op = "assignItemsToFolder"
  /\ done.op = "assignItemsToFolder"
  /\ pending = <<>>
  /\ Cardinality(Range(last.filePaths)) > 1
  /\ HasFolder(state, last.resourceType, last.folderId)
  /\ \E i \in 1..Len(last.filePaths) :
       LET F == getFolderForItem(last.pre, last.resourceType, last.filePaths[i])
       IN F # last.folderId /\ HasFolder(state, last.resourceType, F)

\* ---- C6 ------------------------------------------------------------------
\* C6: after assignItemToFolder(kind, key, undefined) there is no assignment
\* entry for key and nothing else has changed, and the same call made again
\* leaves the state as it is.
C6_IdempotentRootAssignment ==
  (last.op = "assignItemToFolder" /\ last.folderId = Undefined) =>
    LET rt  == last.resourceType
        key == last.filePaths[1]
    IN /\ key \notin DOMAIN state.assignments[rt]
       /\ state.folders = last.pre.folders
       /\ \A k \in ResourceTypes \ {rt} :
            state.assignments[k] = last.pre.assignments[k]
       /\ DOMAIN state.assignments[rt] = DOMAIN last.pre.assignments[rt] \ {key}
       /\ \A p \in DOMAIN state.assignments[rt] :
            state.assignments[rt][p] = last.pre.assignments[rt][p]
       /\ assignOne(state, rt, key, Undefined) = state

\* an assigned key was moved to root while another key stayed assigned
C6_Witness ==
  /\ last.op = "assignItemToFolder"
  /\ last.folderId = Undefined
  /\ last.filePaths[1] \in DOMAIN last.pre.assignments[last.resourceType]
  /\ DOMAIN state.assignments[last.resourceType] # {}

\* ---- C7 ------------------------------------------------------------------
Moved(s, rt, key, F, G) ==
  /\ key \in getItemsInFolder(s, rt, G)
  /\ F # G => key \notin getItemsInFolder(s, rt, F)

\* C7: an item key is a member of getItemsInFolder(kind, F) for at most one
\* folder id F, and assigning a key that is in F to G removes it from F's
\* members and adds it to G's.
C7_SingleMembership ==
  /\ \A rt \in ResourceTypes : \A key \in ItemKeys :
       Cardinality({F \in FolderIds : key \in getItemsInFolder(state, rt, F)}) <= 1
  /\ (last.op \in {"assignItemToFolder", "assignItemsToFolder"}
        /\ last.folderId # Undefined) =>
       \A i \in 1..Len(last.filePaths) :
          Moved(state, last.resourceType, last.filePaths[i],
                getFolderForItem(last.pre, last.resourceType, last.filePaths[i]),
                last.folderId)

\* a key was moved from one existing folder to another
C7_Witness ==
  /\ last.op \in {"assignItemToFolder", "assignItemsToFolder"}
  /\ HasFolder(state, last.resourceType, last.folderId)
  /\ \E i \in 1..Len(last.filePaths) :
       LET F == getFolderForItem(last.pre, last.resourceType, last.filePaths[i])
       IN F # last.folderId /\ HasFolder(state, last.resourceType, F)

\* ---- C8 ------------------------------------------------------------------
ParentsPresent(s, rt) ==
  \A f \in Range(s.folders[rt]) :
     f.parentId = Undefined \/ f.parentId \in FolderIdsOf(s, rt)

\* C8: after a completed operation the parentId of each folder is absent or
\* the id of a folder present in the list of the same kind; stated for
\* deleteFolder of a folder, called in a state where this is so.
C8_ParentIdPresent ==
  (last.op = "deleteFolder"
     /\ HasFolder(last.pre, last.resourceType, last.folderId)
     /\ ParentsPresent(last.pre, last.resourceType)) =>
    ParentsPresent(state, last.resourceType)

\* ---- C9 ------------------------------------------------------------------
AssignmentsPresent(s, rt) == AssignedIds(s, rt) \subseteq FolderIdsOf(s, rt)

\* C9: if every assignment entry of a kind refers to a folder of the kind
\* before deleteFolder(kind, F), every remaining entry does so afterwards.
C9_DeleteLeavesNoDanglingAssignment ==
  (last.op = "deleteFolder"
     /\ AssignmentsPresent(last.pre, last.resourceType)) =>
    AssignmentsPresent(state, last.resourceType)

\* a folder was deleted whose child folder had an item
C9_Witness ==
  /\ last.op = "deleteFolder"
  /\ AssignmentsPresent(last.pre, last.resourceType)
  /\ \E p \in DOMAIN last.pre.assignments[last.resourceType] :
       /\ last.pre.assignments[last.resourceType][p] # last.folderId
       /\ p \notin DOMAIN state.assignments[last.resourceType]

\* ---- C10 -----------------------------------------------------------------
\* C10: a call of createFolder, deleteFolder, assignItemToFolder or
\* assignItemsToFolder that returned, and a renameFolder of an existing
\* folder that returned, fired one change notification, carrying the kind
\* given to the call.
C10_OneNotificationPerCall ==
  (done.op # "none" /\ done.outcome = "returned" /\ done.found) =>
    done.fired = <<done.resourceType>>

\* a settled deleteFolder of kind agent that removed two folders
C10_Witness ==
  /\ done.op = "deleteFolder"
  /\ last.op = "deleteFolder"
  /\ pending = <<>>
  /\ done.resourceType = "agent"
  /\ Len(last.pre.folders["agent"]) > Len(state.folders["agent"]) + 1

\* ---- C11 -----------------------------------------------------------------
\* C11: a call that fired its change notification had its write completed
\* with success before: the blob it wrote is the stored value, the call is
\* no longer awaiting its write, and it returned; a call whose write was
\* rejected fired nothing.
C11_FireAfterWrite ==
  (done.op # "none" /\ done.fired # <<>>) =>
    /\ done.write = "stored"
    /\ done.outcome = "returned"
    /\ stored = toJSON(done.blob)
    /\ \A i \in 1..Len(pending) : pending[i].n # done.n

\* the last call changed the state, its write was stored, then it fired
C11_Witness ==
  /\ done.op # "none"
  /\ done.n = calls
  /\ calls > 1
  /\ done.fired = <<done.resourceType>>
  /\ state # last.pre
  /\ stored = toJSON(state)

\* ---- C12 -----------------------------------------------------------------
\* C12: a mutator whose write was rejected ends by throwing to its caller,
\* and the state keeps what the call had changed: once no other call is in
\* flight the state is the one the call tried to write.
C12_FailureReportedNoRollback ==
  (done.op # "none" /\ done.write = "rejected") =>
    /\ done.outcome = "threw"
    /\ pending = <<>> => state = done.blob

\* a call changed the state, its write was rejected, and the state in
\* memory is now ahead of what is stored
C12_Witness ==
  /\ done.op # "none"
  /\ done.write = "rejected"
  /\ done.n = calls
  /\ pending = <<>>
  /\ state # last.pre
  /\ state # loadState(stored)

\* ---- C13 -----------------------------------------------------------------
RenamedUnknown ==
  /\ last.op = "renameFolder"
  /\ ~HasFolder(last.pre, last.resourceType, last.folderId)

\* C13: renameFolder(kind, id, newName) with an id that is not in
\* getFolders(kind) does not throw, leaves every folder and every assignment
\* unchanged, and still fires a change notification for the kind.
C13_RenameUnknownStillFires ==
  (RenamedUnknown /\ done.n = calls) =>
    /\ done.outcome = "returned"
    /\ state = last.pre
    /\ done.fired = <<last.resourceType>>

\* C13, amended: renameFolder(kind, id, newName) with an id that is not in
\* getFolders(kind) does not throw, leaves every folder and every assignment
\* unchanged, starts no write and fires no change notification.
C13_RenameUnknownSilent ==
  RenamedUnknown =>
    /\ state = last.pre
    /\ \A i \in 1..Len(pending) : pending[i].n # calls
    /\ done.n = calls =>
         /\ done.outcome = "returned"
         /\ done.write = "none"
         /\ done.fired = <<>>

\* a folder was deleted and then renamed by its id, with folders and
\* assignments left in the state
C13_Witness ==
  /\ RenamedUnknown
  /\ done.n = calls
  /\ last.folderId \in MintedIds
  /\ Len(state.folders[last.resourceType]) > 0

\* ---- C14 -----------------------------------------------------------------
\* C14: in every reachable state, deleteFolder(kind, id) with an id that is
\* not in getFolders(kind) returns normally and changes neither the folder
\* list nor the assignment map of any kind.
C14_DeleteUnknownIsNoOp ==
  (last.op = "deleteFolder"
     /\ ~HasFolder(last.pre, last.resourceType, last.folderId)) =>
    /\ state.folders = last.pre.folders
    /\ state.assignments = last.pre.assignments
    /\ done.n = calls => done.outcome = "returned"

\* ---- C15 -----------------------------------------------------------------
\* ids of the folders a walk from the ids in S finds through
\* getChildFolders, n levels down
RECURSIVE ReachFrom(_, _, _, _)
ReachFrom(s, rt, S, n) ==
  IF n = 0 THEN S
  ELSE ReachFrom(s, rt,
                 S \cup UNION {{f.id : f \in Range(getChildFolders(s, rt, p))}
                                 : p \in S},
                 n - 1)

\* the folders of the tree that starts at getChildFolders(kind, undefined)
FromRoot(s, rt) ==
  ReachFrom(s, rt, {Undefined}, Len(getFolders(s, rt))) \ {Undefined}

CreatedDangling ==
  /\ last.op = "createFolder"
  /\ last.folderId # Undefined
  /\ ~HasFolder(last.pre, last.resourceType, last.folderId)

\* C15: createFolder(kind, name, parentId) with a parentId that is not the
\* id of a folder does not throw; the new folder is in getFolders(kind)
\* with that parentId, and no walk from the root through getChildFolders
\* reaches it.
C15_DanglingParentAccepted ==
  CreatedDangling =>
    LET rt == last.resourceType
    IN /\ done.n = calls => done.outcome = "returned"
       /\ \E f \in Range(getFolders(state, rt)) :
            /\ f.id \notin FolderIdsOf(last.pre, rt)
            /\ f.name = last.name
            /\ f.parentId = last.folderId
            /\ f.id \notin FromRoot(state, rt)

\* a folder was created under the id of a deleted folder and the call
\* returned, while another folder is in the tree
C15_Witness ==
  /\ CreatedDangling
  /\ last.folderId \in MintedIds
  /\ done.n = calls
  /\ FromRoot(state, last.resourceType) # {}

\* ---- C16 -----------------------------------------------------------------
\* the items shown under a folder node of the tree of the kind
ListedInFolders(s, rt) ==
  UNION {folderItems(s, rt, F) : F \in FromRoot(s, rt)}

\* C16: assignItemToFolder(kind, key, id) with an id that is not a folder
\* does not throw; the item is then shown neither at root nor under a
\* folder of the tree, and assignItemToFolder(kind, key, undefined) puts it
\* at root again.
C16_OrphanedItemRecoverable ==
  last.op = "assignItemToFolder" =>
    LET rt  == last.resourceType
        key == last.filePaths[1]
    IN /\ done.n = calls => done.outcome = "returned"
       /\ (last.folderId # Undefined /\ ~HasFolder(state, rt, last.folderId)) =>
            /\ key \notin unassignedItems(state, rt)
            /\ key \notin ListedInFolders(state, rt)
            /\ key \in unassignedItems(assignOne(state, rt, key, Undefined), rt)
       /\ last.folderId = Undefined => key \in unassignedItems(state, rt)

\* an item that was assigned to an id that is not a folder, and shown
\* nowhere, was moved to root, next to a folder of the tree
C16_Witness ==
  /\ last.op = "assignItemToFolder"
  /\ last.folderId = Undefined
  /\ last.resourceType = "agent"
  /\ done.n = calls
  /\ LET key == last.filePaths[1]
         F   == getFolderForItem(last.pre, "agent", key)
     IN /\ F # Undefined
        /\ ~HasFolder(last.pre, "agent", F)
        /\ key \notin unassignedItems(last.pre, "agent")
        /\ key \notin ListedInFolders(last.pre, "agent")
        /\ key \in unassignedItems(state, "agent")
  /\ FromRoot(state, "agent") # {}

\* ---- C17 -----------------------------------------------------------------
\* nothing is stored under the key
NothingStored == DOMAIN stored = {}

\* the state is as the constructor left it: no mutator was called since
Loaded == last.op \in {"none", "activate"}

\* C17: when nothing is persisted, the state after loading has version 2
\* and, for each of skill, agent, mcp and plugin, an empty folder list and
\* an empty assignment map.
C17_FreshStateWhenAbsent ==
  (Loaded /\ NothingStored) =>
    /\ state.version = 2
    /\ DOMAIN state.folders = {"skill", "agent", "mcp", "plugin"}
    /\ DOMAIN state.assignments = {"skill", "agent", "mcp", "plugin"}
    /\ \A rt \in {"skill", "agent", "mcp", "plugin"} :
         /\ getFolders(state, rt) = <<>>
         /\ DOMAIN state.assignments[rt] = {}

\* the only write was rejected, and the extension has restarted with
\* nothing stored: the folder of the state before is gone
C17_Witness ==
  /\ last.op = "activate"
  /\ NothingStored
  /\ Len(getFolders(last.pre, "mcp")) > 0
  /\ state.version = CURRENT_VERSION
  /\ getFolders(state, "mcp") = <<>>

\* ---- C18 -----------------------------------------------------------------
\* the stored blob was written by version 1 and none of its folders has a
\* parentId
StoredV1 ==
  /\ "version" \in DOMAIN stored
  /\ stored.version = 1
  /\ \A rt \in DOMAIN stored.folders : \A f \in Range(stored.folders[rt]) :
       "parentId" \notin DOMAIN f

\* C18: after loading a version-1 blob whose folders have no parentId, the
\* state holds every stored folder and assignment, getChildFolders(kind,
\* undefined) is the whole folder list of each kind, and the version of
\* the state is the current one.
C18_V1Migration ==
  (Loaded /\ StoredV1) =>
    /\ state.version = CURRENT_VERSION
    /\ state.folders = stored.folders
    /\ state.assignments = stored.assignments
    /\ \A rt \in ResourceTypes :
         getChildFolders(state, rt, Undefined) = getFolders(state, rt)

\* a folder was added to the version-1 folders, its write was rejected,
\* and the version-1 blob with two folders and an item was loaded again
C18_Witness ==
  /\ last.op = "activate"
  /\ state.folders # last.pre.folders
  /\ StoredV1
  /\ Len(getChildFolders(state, "mcp", Undefined)) = 2
  /\ countItemsRecursive(state, "mcp", 2) = 1
  /\ state.version # stored.version

\* ---- C19 -----------------------------------------------------------------
WellFormed(blob) ==
  /\ "version" \in DOMAIN blob
  /\ DOMAIN blob.folders = ResourceTypes
  /\ DOMAIN blob.assignments = ResourceTypes

\* C19: after loading a blob that is not a well-formed FolderState (the
\* folder list or the assignment map of a kind is missing, or the version)
\* the state is the fresh empty state, and no later mutator call throws.
C19_MalformedTreatedAsAbsent ==
  /\ (Loaded /\ ~NothingStored /\ ~WellFormed(stored)) => state = EmptyState
  /\ (done.op # "none" /\ done.write = "none") => done.outcome = "returned"

\* ---- C20 -----------------------------------------------------------------
\* a folder as its readers see it: id, name, parentId (undefined when the
\* property is missing) and kind
FolderView(f) ==
  [id |-> f.id, name |-> f.name, parentId |-> Prop(f, "parentId"),
   resourceType |-> f.resourceType]

\* the folder lists and assignment maps of a state or of a stored blob
Content(s) ==
  [folders     |-> [rt \in DOMAIN s.folders |->
                      [i \in 1..Len(s.folders[rt]) |->
                         FolderView(s.folders[rt][i])]],
   assignments |-> s.assignments]

C21_RoundTrip ==
  /\ (last.op = "activate" /\ ~NothingStored /\ stored = toJSON(last.pre)) =>
       Content(state) = Content(last.pre)
  /\ Loaded => loadState(toJSON(state)) = state

\* a restart after a mutator wrote a state with a root-level folder, a
\* folder in it and an assigned item; the loaded root-level folder has no
\* parentId property
C21_Witness ==
  /\ last.op = "activate"
  /\ calls > 0
  /\ stored = toJSON(last.pre)
  /\ state # last.pre
  /\ \E f \in Range(getFolders(state, "mcp")) : Prop(f, "parentId") # Undefined
  /\ \E k \in ItemKeys : getFolderForItem(state, "mcp", k) # Undefined

\* ---- C22 -----------------------------------------------------------------
\* C22: in every reachable state, also after a load and after createFolder
\* with any parentId, countItemsRecursive(kind, F) returns for every id F:
\* its calls never nest deeper than the number of folders of the kind
\* plus one, which they would if the walk came back to a folder.
C22_CountTerminates ==
  \A rt \in ResourceTypes : \A F \in FolderIds :
     ReturnsWithin(state, rt, F, Len(getFolders(state, rt)) + 1)

\* a folder was created in a folder that is itself in a folder, in a
\* loaded state, and the count of the outer folder is not zero
C22_Witness ==
  /\ last.op = "createFolder"
  /\ \E f \in Range(getFolders(last.pre, "mcp")) :
       f.id = last.folderId /\ Prop(f, "parentId") # Undefined
  /\ ~ReturnsWithin(state, "mcp", 1, 2)
  /\ countItemsRecursive(state, "mcp", 1) > 0

\* ---- C23 -----------------------------------------------------------------
\* the ids of the folders of all kinds
AllFolderIds(s) == UNION {FolderIdsOf(s, rt) : rt \in DOMAIN s.folders}

OwnDrop == req.kind = "drop" /\ req.from = req.view /\ Len(req.keys) > 0

\* C24: a drop of a non-empty payload of the view's own kind makes one call,
\* assignItemsToFolder with the kind of the view and all dropped keys, to
\* the id of the folder node it was dropped on, or to none when it was
\* dropped on an item node or on no node; every dropped key is then in that
\* folder, or has no entry.
C24_DropAssigns ==
  OwnDrop =>
    LET F == IF req.target.itemType = "folder" THEN req.target.id ELSE Undefined
    IN /\ calls = req.calls + 1
       /\ last = CallRec("assignItemsToFolder", req.view, F, "", req.keys, req.pre)
       /\ \A i \in 1..Len(req.keys) :
            getFolderForItem(state, req.view, req.keys[i]) = F

\* two keys, one of them in a folder, were dropped on an item node, and
\* the call has returned
C24_Witness ==
  /\ OwnDrop
  /\ req.target.itemType = "item"
  /\ Len(req.keys) = 2
  /\ \E i \in 1..2 : getFolderForItem(req.pre, req.view, req.keys[i]) # Undefined
  /\ done.n = calls
  /\ done.outcome = "returned"

\* ---- C25 -----------------------------------------------------------------
\* the selected items, folders left out, are of more than one kind
SpansKinds(items) ==
  \E i \in 1..Len(items), j \in 1..Len(items) :
     /\ items[i].itemType # "folder"
     /\ items[j].itemType # "folder"
     /\ items[i].resourceType # items[j].resourceType

\* C25: a move-to-folder or move-to-root command on items of more than one
\* kind, and a drop in a view of a payload dragged from the view of
\* another kind, make no call of the manager: calls, folder lists and
\* assignment maps are as the request found them.
C25_MixedNeverReach ==
  ((req.kind \in {"moveToFolder", "moveToRoot"} /\ SpansKinds(req.keys))
     \/ (req.kind = "drop" /\ req.from # req.view)) =>
    /\ calls = req.calls
    /\ state = req.pre

\* a skill item and an agent item were selected for a move to a folder
\* while both kinds have a folder
C25_Witness ==
  /\ req.kind = "moveToFolder"
  /\ SpansKinds(req.keys)
  /\ FolderIdsOf(state, "skill") # {}
  /\ FolderIdsOf(state, "agent") # {}
  /\ ~quickPick.open
  /\ state = req.pre

\* ---- C26 -----------------------------------------------------------------
FilterText == "b"

FolderName(s, rt, F) ==
  (CHOOSE f \in Range(getFolders(s, rt)) : f.id = F).name

\* the name of F matches, or an enumerated item that matches is assigned
\* to F or to a folder below F
MatchesInside(s, rt, F, filterText, enumerated) ==
  \/ includes(FolderName(s, rt, F), filterText)
  \/ \E a \in enumerated :
       /\ includes(ItemName(a), filterText)
       /\ getFolderForItem(s, rt, a) \in Subtree(s, rt, F)

\* C26: with a filter active, at the root and under every folder node of
\* the tree, a folder of that level is listed if and only if its name
\* matches or an enumerated item assigned to it or to a folder below it
\* matches.
C26_FilterKeepsMatchingFolders ==
  \A rt \in ResourceTypes :
     /\ \A F \in rootFolders(state, rt, "", ItemKeys) :
          F \in rootFolders(state, rt, FilterText, ItemKeys)
            <=> MatchesInside(state, rt, F, FilterText, ItemKeys)
     /\ \A P \in ShownFolders(state, rt, FilterText, ItemKeys) :
          \A F \in subFolders(state, rt, P, "") :
             F \in subFolders(state, rt, P, FilterText)
               <=> MatchesInside(state, rt, F, FilterText, ItemKeys)

\* ---- C27 -----------------------------------------------------------------
\* C27: for each kind, with no filter, the root lists the folders without
\* parentId and no other, and the node of folder F lists the folders whose
\* parentId is F and no other, and the enumerated items assigned to F and
\* no other.
C27_FolderUnderItsParent ==
  \A rt \in ResourceTypes :
     /\ rootFolders(state, rt, "", ItemKeys)
          = {f.id : f \in {g \in Range(getFolders(state, rt)) :
                             g.parentId = Undefined}}
     /\ \A F \in FolderIdsOf(state, rt) :
          /\ subFolders(state, rt, F, "")
               = {f.id : f \in {g \in Range(getFolders(state, rt)) :
                                  g.parentId = F}}
          /\ itemsOfFolder(state, rt, F, "", ItemKeys)
               = {a \in ItemKeys : getFolderForItem(state, rt, a) = F}

\* ---- C28 -----------------------------------------------------------------
\* the state without the assignment entries of the keys not enumerated
WithoutStale(s, rt, enumerated) ==
  [s EXCEPT !.assignments[rt] = Restrict(@, DOMAIN @ \cap enumerated)]

\* C28: for every enumeration, the tree is the one of the state without
\* the entries of keys that are not enumerated: the same item nodes at
\* root and in each folder, and the same count on each folder node.
C28_StaleEntryInvisible ==
  \A rt \in ResourceTypes : \A enumerated \in SUBSET ItemKeys :
     LET clean == WithoutStale(state, rt, enumerated)
     IN /\ rootItems(state, rt, "", enumerated) = rootItems(clean, rt, "", enumerated)
        /\ \A F \in FolderIdsOf(state, rt) :
             /\ itemsOfFolder(state, rt, F, "", enumerated)
                  = itemsOfFolder(clean, rt, F, "", enumerated)
             /\ childCount(state, rt, F, enumerated)
                  = childCount(clean, rt, F, enumerated)

\* ---- C29 -----------------------------------------------------------------
\* the number of times the view of a kind is told to re-render by the
\* events of fired
RECURSIVE Rerenders(_, _)
Rerenders(view, fired) ==
  IF fired = <<>> THEN 0
  ELSE onDidChange(view, Head(fired)) + Rerenders(view, Tail(fired))

\* C29: when a mutator call of kind K that wrote the state has returned,
\* the view of K was told once to re-render and the views of the three
\* other kinds were not.
C29_OnlyOwnViewRerenders ==
  (done.op # "none" /\ done.outcome = "returned" /\ done.write = "stored") =>
    \A view \in ResourceTypes :
       Rerenders(view, done.fired) = IF view = done.resourceType THEN 1 ELSE 0

\* a batch move of kind agent has returned while kind skill has a folder
C29_Witness ==
  /\ done.op = "assignItemsToFolder"
  /\ done.n = calls
  /\ done.resourceType = "agent"
  /\ state # last.pre
  /\ getFolders(state, "skill") # <<>>
  /\ Rerenders("agent", done.fired) = 1

C31_CreateAddsOneFolder ==
  last.op = "createFolder" =>
    LET rt  == last.resourceType
        was == getFolders(last.pre, rt)
        now == getFolders(state, rt)
    IN /\ Len(now) = Len(was) + 1
       /\ SubSeq(now, 1, Len(was)) = was
       /\ now[Len(now)].name = last.name
       /\ now[Len(now)].parentId = last.folderId
       /\ now[Len(now)].resourceType = rt
       /\ now[Len(now)].id \notin AllFolderIds(last.pre)
       /\ \A other \in ResourceTypes \ {rt} :
            getFolders(state, other) = getFolders(last.pre, other)
       /\ state.assignments = last.pre.assignments

\* a folder was created beside a sibling of the same name, while an item
\* is assigned
C31_Witness ==
  /\ last.op = "createFolder"
  /\ \E f \in Range(getFolders(last.pre, last.resourceType)) :
       f.name = last.name /\ f.parentId = last.folderId
  /\ \E rt \in ResourceTypes : DOMAIN state.assignments[rt] # {}

\* ---- C32 -----------------------------------------------------------------
\* the folders of a kind with their names left out
Unnamed(s, rt) ==
  [i \in 1..Len(getFolders(s, rt)) |->
     [id |-> getFolders(s, rt)[i].id,
      parentId |-> getFolders(s, rt)[i].parentId,
      resourceType |-> getFolders(s, rt)[i].resourceType]]

MoveOps == {"assignItemToFolder", "assignItemsToFolder"}

\* C32: a folder that is there before and after a call has the id, the
\* parentId and the kind it had, and is in the folder list of the same kind;
\* after renameFolder the folder lists are those before the call but for the
\* name of the target; after an assignment call, made directly or by a drop
\* or a move command, the folder lists are those before the call.
C32_FolderIdentityFixed ==
  last.op \in {"createFolder", "renameFolder", "deleteFolder"} \cup MoveOps =>
    /\ \A rt \in ResourceTypes :
         /\ \A f \in Range(getFolders(last.pre, rt)) :
              \A g \in Range(getFolders(state, rt)) :
                 g.id = f.id => /\ g.parentId = f.parentId
                                /\ g.resourceType = f.resourceType
         /\ \A other \in ResourceTypes \ {rt} :
              FolderIdsOf(last.pre, rt) \cap FolderIdsOf(state, other) = {}
    /\ last.op = "renameFolder" =>
         /\ \A rt \in ResourceTypes : Unnamed(state, rt) = Unnamed(last.pre, rt)
         /\ \A rt \in ResourceTypes :
              \A i \in 1..Len(getFolders(state, rt)) :
                 \/ getFolders(state, rt)[i] = getFolders(last.pre, rt)[i]
                 \/ /\ rt = last.resourceType
                    /\ getFolders(state, rt)[i].id = last.folderId
                    /\ getFolders(state, rt)[i].name = last.name
    /\ last.op \in MoveOps => state.folders = last.pre.folders

\* a folder in a folder was renamed by the command
C32_Witness ==
  /\ last.op = "renameFolder"
  /\ state # last.pre
  /\ \E f \in Range(getFolders(state, "agent")) :
       /\ f.id = last.folderId
       /\ f.parentId # Undefined
       /\ f.name = last.name

\* ---- C33 -----------------------------------------------------------------
\* the keys items of a kind can have: file paths, or the names of plugins
KeysOfKind(rt) ==
  IF rt = "plugin" THEN ItemKeys \cup ObjectPrototypeKeys ELSE ItemKeys

\* C33: for a folder id that no folder of the kind has, getChildFolders
\* returns the empty list, getItemsInFolder no key and countItemsRecursive
\* 0; for an item key without entry getFolderForItem returns undefined.
C33_UnknownReadsAbsent ==
  \A rt \in ResourceTypes :
     /\ \A F \in FolderIds \ FolderIdsOf(state, rt) :
          /\ getChildFolders(state, rt, F) = <<>>
          /\ getItemsInFolder(state, rt, F) = {}
          /\ countItemsRecursive(state, rt, F) = 0
     /\ \A key \in KeysOfKind(rt) \ DOMAIN state.assignments[rt] :
          getFolderForItem(state, rt, key) = Undefined

\* ---- C34 -----------------------------------------------------------------
\* C34: on every folder node of the tree of every kind, the item count is
\* countItemsRecursive of the folder and the sub-folder count is the length
\* of getChildFolders of the folder.
C34_CountsShown ==
  \A rt \in ResourceTypes :
     \A F \in ShownFolders(state, rt, "", ItemKeys) :
        /\ childCount(state, rt, F, ItemKeys) = countItemsRecursive(state, rt, F)
        /\ subFolderCount(state, rt, F) = Len(getChildFolders(state, rt, F))

\* ---- C35 -----------------------------------------------------------------
\* in list, folder nodes come before item nodes, and the names of the folder
\* nodes and those of the item nodes are in non-decreasing order
FoldersFirstByName(list) ==
  \A i \in 1..Len(list) : \A j \in (i + 1)..Len(list) :
     /\ ~(list[i].itemType = "item" /\ list[j].itemType = "folder")
     /\ list[i].itemType = list[j].itemType
          => NameRank(list[i].name) <= NameRank(list[j].name)

\* C35: for every kind, the nodes listed at root and those listed under
\* each folder node of the tree are the folder nodes in non-decreasing order
\* of name followed by the item nodes in non-decreasing order of name.
C35_FoldersThenItemsByName ==
  \A rt \in ResourceTypes :
     \A parent \in {Undefined} \cup ShownFolders(state, rt, "", ItemKeys) :
        FoldersFirstByName(childrenList(state, rt, parent, "", ItemKeys))

\* ---- C36 -----------------------------------------------------------------
\* no mutator call awaits its write and no quick pick is open
NoCommandInFlight == pending = <<>> /\ ~quickPick.open

\* C36: with folder ids taken from rendered folder nodes and from the
\* options of the quick pick, in every state with no command in flight
\* every assignment entry of a kind points at a folder of the kind.
C36_NoDanglingAssignmentFromUI ==
  NoCommandInFlight =>
    \A rt \in ResourceTypes : AssignedIds(state, rt) \subseteq FolderIdsOf(state, rt)

\* ---- C37 -----------------------------------------------------------------
\* the number of item nodes of key in the tree with every folder node
\* expanded and no filter
Occurrences(s, rt, key) ==
  (IF key \in rootItems(s, rt, "", ItemKeys) THEN 1 ELSE 0)
    + Cardinality({F \in ShownFolders(s, rt, "", ItemKeys) :
                     key \in itemsOfFolder(s, rt, F, "", ItemKeys)})

\* C37: after any sequence of folder commands, move commands and drops on
\* rendered folder nodes, every enumerated item of a kind whose view nests
\* folders has one item node in the fully expanded tree of the kind.
C37_EveryItemListedOnce ==
  \A rt \in ResourceTypes \ FlatKinds :
     \A key \in ItemKeys : Occurrences(state, rt, key) = 1

\* ---- C38 -----------------------------------------------------------------
\* key has an item node at root or under a folder node that the tree
\* lists, level by level from the root
Reachable(s, rt, key, filterText) ==
  \/ key \in rootItems(s, rt, filterText, ItemKeys)
  \/ \E F \in ShownFolders(s, rt, filterText, ItemKeys) :
       key \in itemsOfFolder(s, rt, F, filterText, ItemKeys)

\* C38: with a filter active, every enumerated item that matches the
\* filter has an item node at root, or under a folder node that is listed
\* together with every folder node above it.
C38_MatchingItemReachable ==
  \A rt \in ResourceTypes :
     \A key \in ItemKeys :
        includes(ItemName(key), FilterText)
          => Reachable(state, rt, key, FilterText)

\* ---- C39 -----------------------------------------------------------------
\* C39: a reload of the items of a view leaves the folder lists and the
\* assignment maps as they were and makes no call; an entry that a call
\* removes is one of a key that the call moved to root, or the call is
\* deleteFolder; and an enumerated item that has an entry is among the
\* items getChildren lists under the node of the folder of the entry.
C39_EnumerationLeavesAssignments ==
  /\ req.kind = "load" => state = req.pre /\ calls = req.calls
  /\ last.op \notin {"none", "activate"} =>
       \A rt \in ResourceTypes :
          \A key \in DOMAIN last.pre.assignments[rt] \ DOMAIN state.assignments[rt] :
             \/ last.op = "deleteFolder" /\ rt = last.resourceType
             \/ /\ last.op \in MoveOps
                /\ rt = last.resourceType
                /\ last.folderId = Undefined
                /\ key \in Range(last.filePaths)
  /\ \A rt \in ResourceTypes : \A key \in loaded[rt] :
       getFolderForItem(state, rt, key) # Undefined =>
         key \in itemsOfFolder(state, rt, getFolderForItem(state, rt, key), "",
                               loaded[rt])

\* an agent that is assigned to a folder was not found by one reload and
\* is found again by the next
C39_Witness ==
  /\ req.kind = "load"
  /\ \E key \in loaded["agent"] \ req.was :
       /\ getFolderForItem(state, "agent", key) \in FolderIdsOf(state, "agent")
       /\ key \in itemsOfFolder(state, "agent", getFolderForItem(state, "agent", key),
                                "", loaded["agent"])
  /\ \E key \in DOMAIN state.assignments["agent"] : key \notin loaded["agent"]

====
